---- MODULE Spec2Model ----
(***************************************************************************)
(* Model of projects/daily-assistant/web/src/api.ts:                       *)
(*                                                                         *)
(*   export async function askAgent(prompt: string) {                      *)
(*     const res = await fetch("http://localhost:8001/agent", {            *)
(*       method: "POST",                                                   *)
(*       headers: { "Content-Type": "application/json" },                  *)
(*       body: JSON.stringify({ prompt })                                  *)
(*     });                                                                 *)
(*     return await res.json();                                            *)
(*   }                                                                     *)
(*                                                                         *)
(* Text is a sequence of UTF-16 code units (a JavaScript string), a body   *)
(* on the wire is a sequence of bytes.  JSON.stringify, the UTF-8 coding   *)
(* of the request and response bodies and JSON.parse are computed, unit by *)
(* unit and byte by byte, as ECMA-262 and the WHATWG Encoding and Fetch    *)
(* standards define them.                                                  *)
(***************************************************************************)
EXTENDS Integers, Sequences, FiniteSets, TLC

(***************************************************************************)
(* Text literals                                                           *)
(***************************************************************************)

\* The printable ASCII characters, U+0020 .. U+007E, in code order (the grave
\* accent, which a TLA+ string cannot hold, by its name).
Ascii ==
  << " ", "!", "\"", "#", "$", "%", "&", "'", "(", ")", "*", "+", ",", "-", ".", "/",
     "0", "1", "2", "3", "4", "5", "6", "7", "8", "9", ":", ";", "<", "=", ">", "?",
     "@", "A", "B", "C", "D", "E", "F", "G", "H", "I", "J", "K", "L", "M", "N", "O",
     "P", "Q", "R", "S", "T", "U", "V", "W", "X", "Y", "Z", "[", "\\", "]", "^", "_",
     "U+0060", "a", "b", "c", "d", "e", "f", "g", "h", "i", "j", "k", "l", "m", "n", "o",
     "p", "q", "r", "s", "t", "u", "v", "w", "x", "y", "z", "{", "|", "}", "~" >>

\* The code unit of a printable ASCII character.
Code(ch) == 31 + (CHOOSE i \in 1..Len(Ascii) : Ascii[i] = ch)

\* The text (also: the ASCII bytes) spelled by a sequence of characters.
Lit(chars) == [i \in 1..Len(chars) |-> Code(chars[i])]

(***************************************************************************)
(* JSON.stringify({ prompt })                                 api.ts:5     *)
(***************************************************************************)

IsHighSurrogate(u) == u >= 55296 /\ u <= 56319      \* D800 .. DBFF
IsLowSurrogate(u)  == u >= 56320 /\ u <= 57343      \* DC00 .. DFFF
IsSurrogate(u)     == IsHighSurrogate(u) \/ IsLowSurrogate(u)

\* One lower-case hexadecimal digit, as a code unit.
HexDigit(n) == IF n < 10 THEN 48 + n ELSE 87 + n

\* ECMA-262 UnicodeEscape: \uXXXX, four lower-case hexadecimal digits.
UnicodeEscape(u) ==
  << 92, 117, HexDigit(u \div 4096), HexDigit((u \div 256) % 16),
     HexDigit((u \div 16) % 16), HexDigit(u % 16) >>

\* Whether the unit at i is half of a pair of surrogates.
IsPairHigh(s, i) == IsHighSurrogate(s[i]) /\ i < Len(s) /\ IsLowSurrogate(s[i + 1])
IsPairLow(s, i)  == IsLowSurrogate(s[i]) /\ i > 1 /\ IsHighSurrogate(s[i - 1])

\* The pieces f[lo] .. f[hi] one after the other.
RECURSIVE Concat(_, _, _)
Concat(f, lo, hi) ==
  IF lo > hi THEN << >>
  ELSE IF lo = hi THEN f[lo]
  ELSE Concat(f, lo, (lo + hi) \div 2) \o Concat(f, ((lo + hi) \div 2) + 1, hi)

\* ECMA-262 QuoteJSONString, what the unit at i becomes.  A surrogate is
\* copied only as half of a pair; alone, it is escaped.
QuoteUnit(s, i) ==
  LET u == s[i] IN
    IF IsPairHigh(s, i) \/ IsPairLow(s, i) THEN << u >>
    ELSE CASE u = 8  -> << 92, 98 >>       \* \b
           [] u = 9  -> << 92, 116 >>      \* \t
           [] u = 10 -> << 92, 110 >>      \* \n
           [] u = 12 -> << 92, 102 >>      \* \f
           [] u = 13 -> << 92, 114 >>      \* \r
           [] u = 34 -> << 92, 34 >>       \* \"
           [] u = 92 -> << 92, 92 >>       \* \\
           [] OTHER  -> IF u < 32 \/ IsSurrogate(u) THEN UnicodeEscape(u) ELSE << u >>

\* A quoting that escapes nothing.
QuoteNoEscape(s) == << 34 >> \o s \o << 34 >>

QuoteJSONString(s) ==
  << 34 >> \o Concat([i \in 1..Len(s) |-> QuoteUnit(s, i)], 1, Len(s)) \o << 34 >>

\* JSON.stringify({ prompt }): an object of one property, no gap.
JSONstringify(prompt) ==
  Lit(<< "{", "\"", "p", "r", "o", "m", "p", "t", "\"", ":" >>)
    \o QuoteJSONString(prompt) \o Lit(<< "}" >>)

(***************************************************************************)
(* The request body on the wire: fetch's body is a string.    api.ts:5     *)
(***************************************************************************)

\* The UTF-8 bytes of one scalar value.
EncodeCodePoint(cp) ==
  IF cp < 128 THEN << cp >>
  ELSE IF cp < 2048 THEN << 192 + (cp \div 64), 128 + (cp % 64) >>
  ELSE IF cp < 65536
    THEN << 224 + (cp \div 4096), 128 + ((cp \div 64) % 64), 128 + (cp % 64) >>
  ELSE << 240 + (cp \div 262144), 128 + ((cp \div 4096) % 64),
          128 + ((cp \div 64) % 64), 128 + (cp % 64) >>

\* Fetch takes a string body as a scalar value string (a surrogate that is
\* not half of a pair becomes U+FFFD) and sends its UTF-8 encoding: the
\* bytes that the unit at i gives.
EncodeUnit(s, i) ==
  LET u == s[i] IN
    IF IsPairHigh(s, i)
      THEN EncodeCodePoint(65536 + (u - 55296) * 1024 + (s[i + 1] - 56320))
    ELSE IF IsPairLow(s, i) THEN << >>
    ELSE IF IsSurrogate(u) THEN EncodeCodePoint(65533)
    ELSE EncodeCodePoint(u)

Utf8Encode(s) == Concat([i \in 1..Len(s) |-> EncodeUnit(s, i)], 1, Len(s))

(***************************************************************************)
(* res.json(): the body's bytes, UTF-8 decoded, then parsed.  api.ts:7     *)
(***************************************************************************)

\* The code units of one scalar value (a pair of surrogates above U+FFFF).
CodeUnits(cp) ==
  IF cp < 65536 THEN << cp >>
  ELSE << 55296 + ((cp - 65536) \div 1024), 56320 + ((cp - 65536) % 1024) >>

\* The state of the WHATWG UTF-8 decoder: the code point so far, the bytes
\* seen and needed, and the bounds of the next continuation byte.
Fresh == [cp |-> 0, seen |-> 0, needed |-> 0, lower |-> 128, upper |-> 191]

\* The decoder, error mode replacement, reading the byte x with no bytes
\* needed: the units it emits and its next state.
DecodeLead(x) ==
  IF x <= 127 THEN [out |-> << x >>, st |-> Fresh]
  ELSE IF x >= 194 /\ x <= 223
    THEN [out |-> << >>, st |-> [Fresh EXCEPT !.needed = 1, !.cp = (x % 32)]]
  ELSE IF x >= 224 /\ x <= 239
    THEN [out |-> << >>,
          st  |-> [Fresh EXCEPT !.needed = 2, !.cp = (x % 16),
                                !.lower = IF x = 224 THEN 160 ELSE 128,
                                !.upper = IF x = 237 THEN 159 ELSE 191]]
  ELSE IF x >= 240 /\ x <= 244
    THEN [out |-> << >>,
          st  |-> [Fresh EXCEPT !.needed = 3, !.cp = (x % 8),
                                !.lower = IF x = 240 THEN 144 ELSE 128,
                                !.upper = IF x = 244 THEN 143 ELSE 191]]
  ELSE [out |-> << 65533 >>, st |-> Fresh]

\* The decoder reading the byte x in state st.  A byte that cannot continue
\* the sequence ends it in U+FFFD and is read again.
DecodeByte(st, x) ==
  IF st.needed = 0 THEN DecodeLead(x)
  ELSE IF x < st.lower \/ x > st.upper
    THEN [out |-> << 65533 >> \o DecodeLead(x).out, st |-> DecodeLead(x).st]
  ELSE LET cp == st.cp * 64 + (x % 64) IN
    IF st.seen + 1 = st.needed THEN [out |-> CodeUnits(cp), st |-> Fresh]
    ELSE [out |-> << >>,
          st  |-> [Fresh EXCEPT !.cp = cp, !.seen = st.seen + 1, !.needed = st.needed]]

\* The decoder reading the bytes lo..hi from state st.
RECURSIVE DecodeRange(_, _, _, _)
DecodeRange(b, lo, hi, st) ==
  IF lo > hi THEN [out |-> << >>, st |-> st]
  ELSE IF lo = hi THEN DecodeByte(st, b[lo])
  ELSE LET mid   == (lo + hi) \div 2
           left  == DecodeRange(b, lo, mid, st)
           right == DecodeRange(b, mid + 1, hi, left.st)
       IN  [out |-> left.out \o right.out, st |-> right.st]

\* The decoder on the bytes from i on; a sequence cut by the end of the
\* bytes ends in U+FFFD.
Utf8DecodeFrom(b, i) ==
  LET r == DecodeRange(b, i, Len(b), Fresh)
  IN  r.out \o (IF r.st.needed # 0 THEN << 65533 >> ELSE << >>)

\* Whether the bytes from i on start with a byte order mark, EF BB BF.
HasBom(b, i) == i + 2 <= Len(b) /\ b[i] = 239 /\ b[i + 1] = 187 /\ b[i + 2] = 191

\* Where the text of the body's bytes starts.  Node's fetch (undici) drops
\* a leading byte order mark and decodes the rest with a TextDecoder, which
\* drops a byte order mark of its own: up to two are dropped.
AfterBom(b, i) == IF HasBom(b, i) THEN i + 3 ELSE i
TextStart(b) == AfterBom(b, AfterBom(b, 1))

\* The body's bytes as text.
Utf8Decode(b) == Utf8DecodeFrom(b, TextStart(b))

\* The greatest length of a string in the runtime (V8's String::kMaxLength
\* on 64 bits, 2^29 - 24): a longer result makes JSON.stringify throw a
\* RangeError, and more bytes than this make the decoder of a body throw an
\* Error (ERR_STRING_TOO_LONG).
MaxStringLength == 536870888

\* n spaces: as code units, and as the bytes that encode them.
Spaces(n) == [i \in 1..n |-> 32]

(***************************************************************************)
(* JSON values, as JSON.parse builds them.  A number is an IEEE-754 double: *)
(* (-1)^neg * m * 2^e, with m an odd integer given by its decimal digits   *)
(* (zero is m = << >>, e = 0, and keeps its sign), or an infinity.  An     *)
(* object is a function from its keys, so that a repeated key keeps its    *)
(* last value.                                                             *)
(***************************************************************************)

JNull       == [t |-> "null"]
JBool(b)    == [t |-> "boolean", b |-> b]
JNum(neg, m, e) == [t |-> "number", neg |-> neg, m |-> m, e |-> e]
JZero(neg)  == JNum(neg, << >>, 0)
JInf(neg)   == [t |-> "number", neg |-> neg, inf |-> TRUE]
JStr(s)     == [t |-> "string", s |-> s]
JArr(a)     == [t |-> "array", a |-> a]
JObj(o)     == [t |-> "object", o |-> o]

\* The object with no property.
NoProps == [k \in {} |-> JNull]

(***************************************************************************)
(* JSON.parse (ECMA-262 25.5.1, the ECMA-404 grammar)         api.ts:7     *)
(***************************************************************************)

\* A parse that failed; one that succeeded is [ok |-> TRUE, v |-> the value,
\* i |-> the index after it].
Fail == [ok |-> FALSE]
Parsed(v, i) == [ok |-> TRUE, v |-> v, i |-> i]

IsWs(u)    == u \in {9, 10, 13, 32}
IsDigit(u) == u >= 48 /\ u <= 57

\* The unit at index i, or -1 past the end.
At(s, i) == IF i >= 1 /\ i <= Len(s) THEN s[i] ELSE -1

\* The first index from i on that holds no JSON white space.
SkipWs(s, i) ==
  IF i > Len(s) THEN i
  ELSE CHOOSE j \in i..(Len(s) + 1) :
         ~IsWs(At(s, j)) /\ \A k \in i..(j - 1) : IsWs(s[k])

\* The first index from i on that holds no digit.
DigitsEnd(s, i) ==
  IF i > Len(s) THEN i
  ELSE CHOOSE j \in i..(Len(s) + 1) :
         ~IsDigit(At(s, j)) /\ \A k \in i..(j - 1) : IsDigit(s[k])

\* The decimal digits s[i] .. s[j - 1] as numbers.
DigitsOf(s, i, j) == [k \in 1..(j - i) |-> s[i + k - 1] - 48]

\* s without its leading zeros.
StripZeros(s) ==
  IF \A i \in 1..Len(s) : s[i] = 0 THEN << >>
  ELSE SubSeq(s, CHOOSE i \in 1..Len(s) : s[i] # 0 /\ \A j \in 1..(i - 1) : s[j] = 0,
              Len(s))

\* The number with the decimal digits d, at most six of them.
RECURSIVE DigitsVal(_, _)
DigitsVal(d, acc) ==
  IF d = << >> THEN acc ELSE DigitsVal(Tail(d), acc * 10 + Head(d))

(***************************************************************************)
(* Decimal to double, correctly rounded (ECMA-262 StringNumericValue,      *)
(* round to nearest, ties to even).  A big natural number is the sequence  *)
(* of its base-10000 digits ("limbs"), most significant first, zero being  *)
(* the empty sequence.  The recursions split their range in halves.        *)
(***************************************************************************)

Zeros(k) == [i \in 1..k |-> 0]

\* The limbs of the number with decimal digits d.
Limbs(d) ==
  LET p == Zeros((4 - (Len(d) % 4)) % 4) \o d
  IN  StripZeros([i \in 1..(Len(p) \div 4) |->
        p[4 * i - 3] * 1000 + p[4 * i - 2] * 100 + p[4 * i - 1] * 10 + p[4 * i]])

\* The decimal digits of the number with limbs n.
Digits(n) ==
  StripZeros([i \in 1..(4 * Len(n)) |->
    LET l == n[(i + 3) \div 4]
        k == (i + 3) % 4
    IN  CASE k = 0 -> l \div 1000
          [] k = 1 -> (l \div 100) % 10
          [] k = 2 -> (l \div 10) % 10
          [] k = 3 -> l % 10])

\* n + 1.
Inc(n) ==
  IF \A i \in 1..Len(n) : n[i] = 9999 THEN << 1 >> \o Zeros(Len(n))
  ELSE LET j == CHOOSE i \in 1..Len(n) :
                  n[i] # 9999 /\ \A m \in (i + 1)..Len(n) : n[m] = 9999
       IN  [i \in 1..Len(n) |-> IF i < j THEN n[i] ELSE IF i = j THEN n[i] + 1 ELSE 0]

\* Limbs lo..hi of n under the remainder rem, divided by d, for
\* 0 < d <= 78125: the limbs q of the quotient and the remainder r.
RECURSIVE DivRange(_, _, _, _, _)
DivRange(n, d, lo, hi, rem) ==
  IF lo > hi THEN [q |-> << >>, r |-> rem]
  ELSE IF lo = hi
    THEN LET v == rem * 10000 + n[lo]
         IN  [q |-> << v \div d >>, r |-> v % d]
  ELSE LET mid   == (lo + hi) \div 2
           left  == DivRange(n, d, lo, mid, rem)
           right == DivRange(n, d, mid + 1, hi, left.r)
       IN  [q |-> left.q \o right.q, r |-> right.r]

\* n divided by d: quotient and remainder.
DivSmall(n, d) == DivRange(n, d, 1, Len(n), 0)

\* a >= b, for numbers without leading zeros.
GreaterEq(a, b) ==
  \/ Len(a) > Len(b)
  \/ /\ Len(a) = Len(b)
     /\ \/ a = b
        \/ \E i \in 1..Len(a) : a[i] > b[i] /\ \A j \in 1..(i - 1) : a[j] = b[j]

IsOdd(n) == n # << >> /\ (n[Len(n)] % 2) = 1

Two53 == << 9007, 1992, 5474, 992 >>           \* 2^53

Max(a, b) == IF a >= b THEN a ELSE b

\* A number being cut down to the bits of a double is (n + f) * 2^b with a
\* fraction 0 <= f < 1 of which two things are kept: sticky or guard says
\* that f is not 0, and, after bits were dropped, guard says that f >= 1/2
\* and sticky that f is neither 0 nor 1/2.
Fixed(n, b, sticky) == [n |-> n, b |-> b, guard |-> FALSE, sticky |-> sticky]

\* x after its n was divided by d, with quotient and remainder q; d is
\* 2^bits, or it is a power of 5 and bits is 0.
Dropped(x, d, bits, q) ==
  LET half == IF bits = 0 THEN d ELSE d \div 2
  IN  [n      |-> StripZeros(q.q),
       b      |-> x.b + bits,
       guard  |-> q.r >= half,
       sticky |-> x.sticky \/ x.guard \/ (q.r % half) # 0]

Drop(x, d, bits) == Dropped(x, d, bits, DivSmall(x.n, d))

\* Drop, c times.
RECURSIVE DropPow(_, _, _, _)
DropPow(x, d, bits, c) ==
  IF c = 0 THEN x
  ELSE IF x.n = << >>
    THEN [n |-> << >>, b |-> x.b + bits * c, guard |-> FALSE,
          sticky |-> x.sticky \/ x.guard]
  ELSE IF c = 1 THEN Drop(x, d, bits)
  ELSE DropPow(DropPow(x, d, bits, c \div 2), d, bits, c - (c \div 2))

\* x without its t lowest bits.
ShiftRight(x, t) == DropPow(DropPow(x, 1024, 10, t \div 10), 2, 1, t % 10)

\* A number of bits that x has too many for a double: for 53 bits, as far
\* as the number g of its decimal digits tells (10^(g-1) is at least
\* 2^floor(3.321 (g-1))), and for an exponent of -1074 or more.
Excess(x) ==
  Max(Max((((Len(Digits(x.n)) - 1) * 3321) \div 1000) - 52, (0 - 1074) - x.b), 0)

\* x with at most 53 bits and an exponent of -1074 or more, by dropping
\* one bit after the other.
RECURSIVE DropBits(_)
DropBits(x) ==
  IF GreaterEq(x.n, Two53) \/ x.b < 0 - 1074 THEN DropBits(Drop(x, 2, 1)) ELSE x

Cut(x) == DropBits(ShiftRight(x, Excess(x)))

\* The n of x rounded to nearest, ties to even.
Rounded(x) == IF x.guard /\ (x.sticky \/ IsOdd(x.n)) THEN Inc(x.n) ELSE x.n

\* n * 2^b with n made odd.
RECURSIVE OddMantissa(_, _, _)
OddMantissa(neg, n, b) ==
  IF n = << >> THEN JZero(neg)
  ELSE IF IsOdd(n) THEN JNum(neg, Digits(n), b)
  ELSE IF DivSmall(n, 1024).r = 0
    THEN OddMantissa(neg, StripZeros(DivSmall(n, 1024).q), b + 10)
  ELSE OddMantissa(neg, StripZeros(DivSmall(n, 2).q), b + 1)

\* The double n * 2^b for n <= 2^53: beyond the largest, (2^53 - 1) * 2^971,
\* it is an infinity.
Double(neg, n, b) ==
  IF b >= 972 \/ (b = 971 /\ n = Two53) THEN JInf(neg) ELSE OddMantissa(neg, n, b)

\* The double nearest to x.
Nearest(neg, x) == Double(neg, Rounded(x), x.b)

\* d * 10^e for e < 0 is (d * 10^z / 5^(z - e)) * 2^(e - z): the quotient,
\* and the z that gives it 18 digits or more (5^k < 10^(0.7 k)).
Quotient(d, e, z, sticky) ==
  DropPow(DropPow(Fixed(Limbs(d \o Zeros(z)), e - z, sticky), 78125, 0,
                  (z - e) \div 7),
          5, 0, (z - e) % 7)

Scale(d, e) == Max(((180 - 7 * e - 10 * Len(d)) + 2) \div 3, 0)

\* No double and no middle of two doubles has more than 767 digits: of a
\* longer number the first 800 digits decide the nearest double, once it is
\* known whether any digit after them is other than 0.
Leading(d) == SubSeq(d, 1, IF Len(d) > 800 THEN 800 ELSE Len(d))
Inexact(d) == \E i \in 801..Len(d) : d[i] # 0

\* d * 10^e, and a little more when sticky, as a number n * 2^b.
Scaled(d, e, sticky) ==
  IF e >= 0 THEN Fixed(Limbs(d \o Zeros(e)), 0, sticky)
  ELSE Quotient(d, e, Scale(d, e), sticky)

\* The double nearest to (-1)^neg * d * 10^e, d a number given by its
\* decimal digits without leading zeros; 10^(p-1) <= d * 10^e < 10^p for
\* p = Len(d) + e, which is above 2^1024 for p > 309 and below 2^-1075 for
\* p <= -324.
ToDouble(neg, d, e) ==
  IF d = << >> THEN JZero(neg)
  ELSE IF Len(d) + e > 309 THEN JInf(neg)
  ELSE IF Len(d) + e <= 0 - 324 THEN JZero(neg)
  ELSE Nearest(neg, Cut(Scaled(Leading(d), e + (Len(d) - Len(Leading(d))),
                                Inexact(d))))

\* JSONNumber: -? (0 | [1-9][0-9]*) (. [0-9]+)? ([eE] [+-]? [0-9]+)?
\* The index after the sign at i, after the integer, the fraction and the
\* exponent at the index last in p, added to p.
SignEnd(s, i) == << IF At(s, i) = 45 THEN i + 1 ELSE i >>
IntEnd(s, p) ==
  Append(p, IF At(s, p[Len(p)]) = 48 THEN p[Len(p)] + 1 ELSE DigitsEnd(s, p[Len(p)]))
FracEnd(s, p) ==
  Append(p, IF At(s, p[Len(p)]) = 46 THEN DigitsEnd(s, p[Len(p)] + 1) ELSE p[Len(p)])
ExpDigits(s, i) == IF At(s, i + 1) \in {43, 45} THEN i + 2 ELSE i + 1
ExpEnd(s, p) ==
  Append(p, IF At(s, p[Len(p)]) \in {101, 69} THEN DigitsEnd(s, ExpDigits(s, p[Len(p)]))
            ELSE p[Len(p)])

\* The exponent written in s from f1 up to e1. A string has fewer than 2^29
\* units, so that next to an exponent of ten digits or more the number of
\* digits written before it changes nothing: 999999999 stands for it.
ExpValue(d) == IF Len(d) > 9 THEN 999999999 ELSE DigitsVal(d, 0)
Exponent(s, f1, e1) ==
  IF e1 = f1 THEN 0
  ELSE IF At(s, f1 + 1) = 45
    THEN 0 - ExpValue(StripZeros(DigitsOf(s, ExpDigits(s, f1), e1)))
  ELSE ExpValue(StripZeros(DigitsOf(s, ExpDigits(s, f1), e1)))

\* The number at i whose sign, integer, fraction and exponent end at
\* p = <<i0, i1, f1, e1>>; an integer, a fraction or an exponent without a
\* digit is none.
Number(s, i, p) ==
  IF \/ p[2] = p[1]
     \/ At(s, p[2]) = 46 /\ p[3] = p[2] + 1
     \/ At(s, p[3]) \in {101, 69} /\ p[4] = ExpDigits(s, p[3])
    THEN Fail
  ELSE Parsed(ToDouble(p[1] > i,
                       StripZeros(DigitsOf(s, p[1], p[2]) \o DigitsOf(s, p[2] + 1, p[3])),
                       Exponent(s, p[3], p[4]) - Max(p[3] - p[2] - 1, 0)),
              p[4])

ParseNumber(s, i) == Number(s, i, ExpEnd(s, FracEnd(s, IntEnd(s, SignEnd(s, i)))))

\* The value of a hexadecimal digit, or -1.
HexVal(u) ==
  IF IsDigit(u) THEN u - 48
  ELSE IF u >= 97 /\ u <= 102 THEN u - 87
  ELSE IF u >= 65 /\ u <= 70 THEN u - 55
  ELSE -1

\* Whether a backslash at k, in a string that opens before i, starts an
\* escape: it does when the backslashes just before it come in pairs.
IsEscape(s, i, k) ==
  /\ k >= i /\ At(s, k) = 92
  /\ LET r == CHOOSE r \in i..k :
                /\ \A m \in r..k : s[m] = 92
                /\ (r = i \/ s[r - 1] # 92)
     IN  ((k - r) % 2) = 0

\* The four hexadecimal digits after \u at k, or -1 for what is none.
HexDigits(s, k) == [d \in 1..4 |-> HexVal(At(s, k + 1 + d))]

\* The unit that the escape at k stands for, or -1 when it is none of
\* \" \\ \/ \b \f \n \r \t \uXXXX.
EscapeUnit(s, k) ==
  LET x == At(s, k + 1)
      h == HexDigits(s, k)
  IN  CASE x = 34  -> 34
        [] x = 92  -> 92
        [] x = 47  -> 47
        [] x = 98  -> 8
        [] x = 102 -> 12
        [] x = 110 -> 10
        [] x = 114 -> 13
        [] x = 116 -> 9
        [] x = 117 -> IF \E d \in 1..4 : h[d] = -1 THEN -1
                      ELSE h[1] * 4096 + h[2] * 256 + h[3] * 16 + h[4]
        [] OTHER   -> -1

\* Whether the string that opens before i cannot go on at k: the text
\* ends, or holds a control character, a quote that is not escaped, or an
\* escape that is none.
StringStops(s, i, k) ==
  \/ k > Len(s)
  \/ s[k] < 32
  \/ s[k] = 34 /\ ~IsEscape(s, i, k - 1)
  \/ IsEscape(s, i, k) /\ EscapeUnit(s, k) = -1

\* What the unit at k of the string gives: an escape its unit, the units
\* that spell the escape nothing, any other unit itself.
StringUnit(s, i, k) ==
  IF IsEscape(s, i, k) THEN << EscapeUnit(s, k) >>
  ELSE IF IsEscape(s, i, k - 1) THEN << >>
  ELSE IF \E d \in 2..5 : IsEscape(s, i, k - d) /\ s[k - d + 1] = 117 THEN << >>
  ELSE << s[k] >>

\* JSONString after its opening quote: the units up to the closing quote,
\* with the escapes replaced.
ParseString(s, i) ==
  LET j == CHOOSE j \in i..(Len(s) + 1) :
             StringStops(s, i, j) /\ \A k \in i..(j - 1) : ~StringStops(s, i, k)
  IN  IF At(s, j) # 34 THEN Fail
      ELSE Parsed(JStr(Concat([k \in i..(j - 1) |-> StringUnit(s, i, k)], i, j - 1)),
                  j + 1)

\* Whether the units from i on spell the word.
StartsWith(s, i, word) ==
  /\ i + Len(word) - 1 <= Len(s)
  /\ \A k \in 1..Len(word) : s[i + k - 1] = word[k]

RECURSIVE ParseValue(_, _)
RECURSIVE ParseElements(_, _, _)
RECURSIVE ParseMembers(_, _, _)

\* JSONValue at index i (no white space before it).
ParseValue(s, i) ==
  LET u == At(s, i) IN
  CASE u = 123 ->                                        \* {
         LET j == SkipWs(s, i + 1) IN
         IF At(s, j) = 125 THEN Parsed(JObj(NoProps), j + 1)
         ELSE ParseMembers(s, j, NoProps)
    [] u = 91 ->                                         \* [
         LET j == SkipWs(s, i + 1) IN
         IF At(s, j) = 93 THEN Parsed(JArr(<< >>), j + 1)
         ELSE ParseElements(s, j, << >>)
    [] u = 34 -> ParseString(s, i + 1)
    [] u = 45 \/ IsDigit(u) -> ParseNumber(s, i)
    [] u = 116 -> IF StartsWith(s, i, Lit(<< "t", "r", "u", "e" >>))
                    THEN Parsed(JBool(TRUE), i + 4) ELSE Fail
    [] u = 102 -> IF StartsWith(s, i, Lit(<< "f", "a", "l", "s", "e" >>))
                    THEN Parsed(JBool(FALSE), i + 5) ELSE Fail
    [] u = 110 -> IF StartsWith(s, i, Lit(<< "n", "u", "l", "l" >>))
                    THEN Parsed(JNull, i + 4) ELSE Fail
    [] OTHER -> Fail

\* JSONElementList at index i, up to the closing bracket; acc is the array
\* so far.
ParseElements(s, i, acc) ==
  LET r == ParseValue(s, i) IN
  IF ~r.ok THEN Fail
  ELSE LET j == SkipWs(s, r.i) IN
    IF At(s, j) = 44 THEN ParseElements(s, SkipWs(s, j + 1), Append(acc, r.v))
    ELSE IF At(s, j) = 93 THEN Parsed(JArr(Append(acc, r.v)), j + 1)
    ELSE Fail

\* JSONMemberList at index i, up to the closing brace; acc is the object so
\* far.  A key given again replaces its value.
ParseMembers(s, i, acc) ==
  IF At(s, i) # 34 THEN Fail
  ELSE LET k == ParseString(s, i + 1) IN
    IF ~k.ok THEN Fail
    ELSE LET c == SkipWs(s, k.i) IN
      IF At(s, c) # 58 THEN Fail
      ELSE LET r == ParseValue(s, SkipWs(s, c + 1)) IN
        IF ~r.ok THEN Fail
        ELSE LET j   == SkipWs(s, r.i)
                 obj == (k.v.s :> r.v) @@ acc
             IN  IF At(s, j) = 44 THEN ParseMembers(s, SkipWs(s, j + 1), obj)
                 ELSE IF At(s, j) = 125 THEN Parsed(JObj(obj), j + 1)
                 ELSE Fail

\* The value r parsed from the text, if only white space follows it.
Only(text, r) ==
  IF r.ok /\ SkipWs(text, r.i) = Len(text) + 1 THEN [ok |-> TRUE, v |-> r.v]
  ELSE Fail

\* JSON.parse(text): one value between optional white space, and nothing
\* else; Fail stands for the SyntaxError it throws.
JSONparse(text) == Only(text, ParseValue(text, SkipWs(text, 1)))

\* The Error thrown for bytes that make no string.
TooLong == [ok |-> FALSE, error |-> "Error"]

\* res.text() in place of res.json(): the body as a string, unparsed.
ResText(bytes) == [ok |-> TRUE, v |-> JStr(Utf8Decode(bytes))]

\* The body mixin's json(): the bytes are UTF-8 decoded, which fails when
\* there are more of them after the byte order marks than a string holds,
\* and the text is parsed.
ResJson(bytes) ==
  IF Len(bytes) - (TextStart(bytes) - 1) > MaxStringLength THEN TooLong
  ELSE JSONparse(Utf8Decode(bytes))

(***************************************************************************)
(* The request askAgent makes                                 api.ts:2-6   *)
(***************************************************************************)

URL == "http://localhost:8001/agent"

\* A request whose method depends on the prompt: GET for the empty prompt.
RequestByPrompt(p) ==
  [ url     |-> URL,
    method  |-> IF p = << >> THEN "GET" ELSE "POST",
    headers |-> { << "Content-Type", "application/json" >> },
    body    |-> Utf8Encode(JSONstringify(p)) ]

\* The length of JSON.stringify({ prompt }) for a prompt of fill spaces
\* followed by the units of text: the ten units of {"prompt": the quoted
\* string, in which a space stands for itself, and the closing brace.
StringifyLength(fill, text) == 11 + fill + Len(QuoteJSONString(text))

\* The request fetch is called with, its body as the bytes sent.
Request(p) ==
  [ url     |-> URL,
    method  |-> "POST",
    headers |-> { << "Content-Type", "application/json" >> },
    body    |-> Utf8Encode(JSONstringify(p)) ]

(***************************************************************************)
(* Inputs: the calls, the prompts they are made with, and what the agent   *)
(* service and the network may answer.                                     *)
(***************************************************************************)

\* The most calls of askAgent that overlap.
MaxCalls == 2
Calls == 1..MaxCalls

\* The longest prompt of the exhaustive prompts.
MaxPromptLen == 2

\* The code units prompts are made of: a letter, the two characters JSON
\* escapes with a backslash, a line feed, a control character with no short
\* escape, a two-byte character, and the two halves of a surrogate pair
\* (U+1F600), which also occur alone and in the wrong order.
PromptUnits == {97, 34, 92, 10, 1, 233, 55357, 56832}

\* A prompt is written as a number of spaces followed by the units of a
\* text, so that the longest strings there are can be written; no string
\* has more than MaxStringLength units.
Prompt(fill, text) == [fill |-> fill, text |-> text]
Units(p) == Spaces(p.fill) \o p.text
NoPrompt == Prompt(0, << >>)

\* Every text of at most MaxPromptLen units.
ShortTexts == UNION {[1..n -> PromptUnits] : n \in 0..MaxPromptLen}

\* Longer texts: the eight units over and over, and the halves of surrogate
\* pairs in the wrong order, paired and alone.
Cycle(n) == [i \in 1..n |->
              << 97, 34, 92, 10, 1, 233, 55357, 56832 >>[((i - 1) % 8) + 1]]
LongTexts == { Cycle(8), Cycle(200), << 56832, 55357, 55357, 56832, 56832 >> }

\* Prompts whose request body is one unit too long for a string: by its
\* spaces alone, by the backslash a quote is written with, and by the six
\* units a control character is written with; and the longest strings there
\* are, of MaxStringLength units, all spaces and ending in a letter.
OverLongPrompts ==
  { Prompt(MaxStringLength - 12, << >>),
    Prompt(MaxStringLength - 14, << 34 >>),
    Prompt(MaxStringLength - 18, << 1 >>),
    Prompt(MaxStringLength, << >>),
    Prompt(MaxStringLength - 1, << 97 >>) }

\* Every prompt.
AllPrompts ==
  { Prompt(0, t) : t \in ShortTexts \cup LongTexts } \cup OverLongPrompts


\* Texts and bodies, spelled out.
TextHi == Lit(<< "h", "i" >>)
KeyPrompt == Lit(<< "p", "r", "o", "m", "p", "t" >>)
KeyOk == Lit(<< "o", "k" >>)
KeyError == Lit(<< "e", "r", "r", "o", "r" >>)
TextX == Lit(<< "x" >>)
TextS == Lit(<< "s" >>)
KeyA == Lit(<< "a" >>)
KeyReply == Lit(<< "r", "e", "p", "l", "y" >>)
KeyText == Lit(<< "t", "e", "x", "t" >>)
KeyN == Lit(<< "n" >>)
BodyOk == Lit(<< "{", "\"", "o", "k", "\"", ":", " ", "t", "r", "u", "e", "}" >>)
BodyError ==
  Lit(<< "{", "\"", "e", "r", "r", "o", "r",
         "\"", ":", " ", "\"", "x", "\"", "}" >>)
BodyNull == Lit(<< "n", "u", "l", "l" >>)
BodyFalse == Lit(<< "f", "a", "l", "s", "e" >>)
BodyInt == Lit(<< "4", "2" >>)
BodyExp == Lit(<< "-", "1", "2", ".", "5", "e", "1" >>)
BodyFrac == Lit(<< "0", ".", "0", "0", "1", "5", "0" >>)
BodyArray ==
  Lit(<< "[", "1", ",", " ", "\"", "s", "\"",
         ",", " ", "n", "u", "l", "l", "]" >>)
BodyString ==
  Lit(<< "\"", "p", "\\", "u", "0", "0",
         "E", "9", "\\", "n", "\\", "\"", "\"" >>)
BodyEmptyObj == Lit(<< " ", "{", " ", "}", " " >>)
BodyDup == Lit(<< "{", "\"", "a", "\"", ":", "1", ",", "\"", "a", "\"", ":", "2", "}" >>)
BodyNested ==
  Lit(<< "{", "\"", "r", "e", "p", "l", "y", "\"", ":", "{", "\"", "t", "e", "x", "t",
         "\"", ":", "\"", "h", "i", "\"", ",", "\"", "n", "\"", ":", "[", "]", "}", "}" >>)
\* "e-acute, U+1F600" in UTF-8, and an object after a byte order mark.
BodyUtf8 == << 34, 195, 169, 240, 159, 152, 128, 34 >>
BodyBom == << 239, 187, 191 >> \o BodyEmptyObj
BodyNotJson == Lit(<< "n", "o", "t", " ", "j", "s", "o", "n" >>)
BodyTrunc == Lit(<< "{", "\"", "o", "k", "\"", ":", " ", "t", "r", "u", "e" >>)
BodySingleQ == Lit(<< "{", "'", "o", "k", "'", ":", " ", "t", "r", "u", "e", "}" >>)
BodyTrailComma == Lit(<< "[", "1", ",", "]" >>)
BodyLeadZero == Lit(<< "0", "1" >>)
BodyUndefined == Lit(<< "u", "n", "d", "e", "f", "i", "n", "e", "d" >>)
BodyTrailing ==
  Lit(<< "{", "\"", "o", "k", "\"", ":", " ",
         "t", "r", "u", "e", "}", " ", "x" >>)
BodyHtml == Lit(<< "<", "h", "1", ">", "5", "0", "0", "<", "/", "h", "1", ">" >>)
\* A raw line feed in a string, a \u escape of three digits, and a byte order
\* mark at the end.
BodyRawLf == << 34, 97, 10, 98, 34 >>
BodyShortEscape == << 34, 92, 117, 48, 48, 101, 34 >>
BodyBomLast == BodyEmptyObj \o << 239, 187, 191 >>
\* An object after two byte order marks, and after three.
BodyTwoBoms == << 239, 187, 191, 239, 187, 191 >> \o BodyEmptyObj
BodyThreeBoms == << 239, 187, 191 >> \o BodyTwoBoms
\* Numbers that no double holds: 2^53 + 1, one above the largest double,
\* one below the least, and zero with a sign.
BodyOdd ==
  Lit(<< "9", "0", "0", "7", "1", "9", "9", "2",
         "5", "4", "7", "4", "0", "9", "9", "3" >>)
BodyHuge == Lit(<< "-", "1", "e", "4", "0", "0" >>)
BodyTiny == Lit(<< "1", "e", "-", "4", "0", "0" >>)
BodyNegZero == Lit(<< "-", "0" >>)

\* The prompts of overlapping calls: the empty one, "hi", and one too long
\* for its request to be built.
Prompts == { NoPrompt, Prompt(0, TextHi), Prompt(MaxStringLength, << >>) }

\* Response bodies that are JSON, each with the value it denotes: a number
\* denotes the double nearest to it.
JsonCases ==
  { [body |-> BodyOk,       value |-> JObj(KeyOk :> JBool(TRUE))],
    [body |-> BodyError,    value |-> JObj(KeyError :> JStr(TextX))],
    [body |-> BodyNull,     value |-> JNull],
    [body |-> BodyFalse,    value |-> JBool(FALSE)],
    [body |-> BodyInt,      value |-> JNum(FALSE, << 2, 1 >>, 1)],
    [body |-> BodyExp,      value |-> JNum(TRUE, << 1, 2, 5 >>, 0)],
    [body |-> BodyFrac,     value |-> JNum(FALSE, << 3,4,5,8,7,6,4,5,1,3,8,2,0,5,4,1 >>, 0 - 61)],
    [body |-> BodyArray,    value |-> JArr(<< JNum(FALSE, << 1 >>, 0), JStr(TextS), JNull >>)],
    [body |-> BodyString,   value |-> JStr(<< 112, 233, 10, 34 >>)],
    [body |-> BodyUtf8,     value |-> JStr(<< 233, 55357, 56832 >>)],
    [body |-> BodyBom,      value |-> JObj(NoProps)],
    [body |-> BodyTwoBoms,  value |-> JObj(NoProps)],
    [body |-> BodyOdd,      value |-> JNum(FALSE, << 1 >>, 53)],
    [body |-> BodyHuge,     value |-> JInf(TRUE)],
    [body |-> BodyTiny,     value |-> JZero(FALSE)],
    [body |-> BodyNegZero,  value |-> JZero(TRUE)],
    [body |-> BodyDup,      value |-> JObj(KeyA :> JNum(FALSE, << 1 >>, 1))],
    [body |-> BodyNested,   value |-> JObj(KeyReply :> JObj((KeyText :> JStr(TextHi))
                                                     @@ (KeyN :> JArr(<< >>))))] }

\* Response bodies that are not JSON.
NonJsonBodies ==
  { BodyNotJson,
    << >>,
    BodyTrunc,
    BodySingleQ,
    BodyTrailComma,
    BodyLeadZero,
    BodyUndefined,
    BodyTrailing,
    BodyHtml,
    BodyRawLf,
    BodyShortEscape,
    BodyBomLast,
    BodyThreeBoms }

JsonBodies == { k.body : k \in JsonCases }
Bodies == JsonBodies \cup NonJsonBodies

\* The first n bytes of a body, and every start of it, the whole included:
\* what has arrived of a body when the connection drops.
Start(body, n) == SubSeq(body, 1, n)
Starts(body) == { Start(body, n) : n \in 0..Len(body) }

\* The starts of a body, short of the whole, that are JSON themselves, each
\* with the value it denotes; no other start of a body is JSON.
CutCases ==
  { [body |-> Start(BodyInt, 1),      value |-> JNum(FALSE, << 1 >>, 2)],
    [body |-> Start(BodyLeadZero, 1), value |-> JZero(FALSE)],
    [body |-> Start(BodyExp, 2),      value |-> JNum(TRUE, << 1 >>, 0)],
    [body |-> Start(BodyExp, 3),      value |-> JNum(TRUE, << 3 >>, 2)],
    [body |-> Start(BodyExp, 5),      value |-> JNum(TRUE, << 2, 5 >>, 0 - 1)],
    [body |-> Start(BodyFrac, 3),     value |-> JZero(FALSE)],
    [body |-> Start(BodyFrac, 4),     value |-> JZero(FALSE)],
    [body |-> Start(BodyFrac, 5),     value |-> JNum(FALSE, << 1, 1, 5, 2, 9, 2, 1, 5, 0, 4, 6, 0, 6, 8, 4, 7 >>, 0 - 60)],
    [body |-> Start(BodyFrac, 6),     value |-> JNum(FALSE, << 3, 4, 5, 8, 7, 6, 4, 5, 1, 3, 8, 2, 0, 5, 4, 1 >>, 0 - 61)],
    [body |-> Start(BodyHuge, 4),     value |-> JNum(TRUE, << 6, 2, 5 >>, 4)],
    [body |-> Start(BodyHuge, 5),     value |-> JNum(TRUE, << 8, 2, 7, 1, 8, 0, 6, 1, 2, 5, 5, 3, 0, 2, 7, 7 >>, 80)],
    [body |-> Start(BodyTiny, 1),     value |-> JNum(FALSE, << 1 >>, 0)],
    [body |-> Start(BodyTiny, 4),     value |-> JNum(FALSE, << 7, 3, 7, 8, 6, 9, 7, 6, 2, 9, 4, 8, 3, 8, 2, 1 >>, 0 - 66)],
    [body |-> Start(BodyTiny, 5),     value |-> JNum(FALSE, << 1, 2, 2, 5, 9, 9, 6, 4, 3, 2, 6, 9, 2, 7, 1, 1 >>, 0 - 183)],
    [body |-> Start(BodyOdd, 1),      value |-> JNum(FALSE, << 9 >>, 0)],
    [body |-> Start(BodyOdd, 2),      value |-> JNum(FALSE, << 4, 5 >>, 1)],
    [body |-> Start(BodyOdd, 3),      value |-> JNum(FALSE, << 2, 2, 5 >>, 2)],
    [body |-> Start(BodyOdd, 4),      value |-> JNum(FALSE, << 9, 0, 0, 7 >>, 0)],
    [body |-> Start(BodyOdd, 5),      value |-> JNum(FALSE, << 9, 0, 0, 7, 1 >>, 0)],
    [body |-> Start(BodyOdd, 6),      value |-> JNum(FALSE, << 9, 0, 0, 7, 1, 9 >>, 0)],
    [body |-> Start(BodyOdd, 7),      value |-> JNum(FALSE, << 9, 0, 0, 7, 1, 9, 9 >>, 0)],
    [body |-> Start(BodyOdd, 8),      value |-> JNum(FALSE, << 1, 1, 2, 5, 8, 9, 9, 9 >>, 3)],
    [body |-> Start(BodyOdd, 9),      value |-> JNum(FALSE, << 9, 0, 0, 7, 1, 9, 9, 2, 5 >>, 0)],
    [body |-> Start(BodyOdd, 10),     value |-> JNum(FALSE, << 4, 5, 0, 3, 5, 9, 9, 6, 2, 7 >>, 1)],
    [body |-> Start(BodyOdd, 11),     value |-> JNum(FALSE, << 9, 0, 0, 7, 1, 9, 9, 2, 5, 4, 7 >>, 0)],
    [body |-> Start(BodyOdd, 12),     value |-> JNum(FALSE, << 4, 5, 0, 3, 5, 9, 9, 6, 2, 7, 3, 7 >>, 1)],
    [body |-> Start(BodyOdd, 13),     value |-> JNum(FALSE, << 2, 2, 5, 1, 7, 9, 9, 8, 1, 3, 6, 8, 5 >>, 2)],
    [body |-> Start(BodyOdd, 14),     value |-> JNum(FALSE, << 9, 0, 0, 7, 1, 9, 9, 2, 5, 4, 7, 4, 0, 9 >>, 0)],
    [body |-> Start(BodyOdd, 15),     value |-> JNum(FALSE, << 9, 0, 0, 7, 1, 9, 9, 2, 5, 4, 7, 4, 0, 9, 9 >>, 0)],
    [body |-> Start(BodyTrailing, 13), value |-> JObj(KeyOk :> JBool(TRUE))],
    [body |-> Start(BodyBomLast, 4),  value |-> JObj(NoProps)],
    [body |-> Start(BodyBomLast, 5),  value |-> JObj(NoProps)],
    [body |-> Start(BodyBom, 7),      value |-> JObj(NoProps)],
    [body |-> Start(BodyTwoBoms, 10), value |-> JObj(NoProps)] }

\* What can arrive of the bodies, and what of it is JSON.
Arrivals == UNION { Starts(b) : b \in Bodies }
JsonArrivals == JsonBodies \cup { k.body : k \in CutCases }

\* A body is written as a number of spaces followed by bytes, so that one
\* longer than a string's greatest length can be written: its size, and its
\* first n bytes.
Body(fill, bytes) == [fill |-> fill, body |-> bytes]
Size(b) == b.fill + Len(b.body)
StartOf(b, n) ==
  IF n <= b.fill THEN Body(n, << >>)
  ELSE Body(b.fill, Start(b.body, n - b.fill))

\* res.json() of each body and of each start of one, and of the same after a
\* space, computed once.
BodyJson ==
  [b \in Arrivals, spaced \in BOOLEAN |->
     ResJson(IF spaced THEN << 32 >> \o b ELSE b)]

\* res.json() of a body that starts with spaces.  The spaces keep a byte
\* order mark after them from being dropped and are skipped by JSON.parse:
\* a body that a string can hold decodes as it does after one space.
Decode(b) ==
  IF b.fill = 0 THEN BodyJson[b.body, FALSE]
  ELSE IF Size(b) > MaxStringLength THEN TooLong
  ELSE BodyJson[b.body, TRUE]

\* The value a JSON body denotes.
Denotes(body) == (CHOOSE k \in JsonCases \cup CutCases : k.body = body).value

\* The statuses of the responses fetch resolves to: a redirect it follows
\* is not one, a 302 that names no location is.
Statuses == {200, 204, 302, 304, 404, 500}

\* The spaces a body starts with: none, as many as leave a string room for
\* two more bytes, and as many as a string holds.
Fills == {0, MaxStringLength - 2, MaxStringLength}

\* A response of status 204 or 304 has no body.
AllResponses ==
  { r \in [status : Statuses, fill : Fills, body : Bodies] :
      r.status \in {204, 304} => r.body = << >> /\ r.fill = 0 }

\* Where the body of a response breaks off: before its first byte, after
\* it, and at each byte after the spaces of some response.
CutPoints ==
  {0, 1} \cup UNION { { r.fill + n : n \in 0..Len(r.body) } : r \in AllResponses }

\* Where the body of an answer to overlapping calls breaks off: after its
\* first byte.
CutLengths == {1}

\* What the agent answers overlapping calls: a JSON body of which the first
\* byte alone is JSON as well, and a body that is not JSON under an error
\* status.
Responses ==
  { [status |-> 200, fill |-> 0, body |-> BodyInt],
    [status |-> 500, fill |-> 0, body |-> BodyNotJson] }

(***************************************************************************)
(* State                                                                   *)
(***************************************************************************)

VARIABLES
  pc,        \* where each call of askAgent is: "idle" (not called), suspended
             \* at "await fetch" (line 2) or "await json" (line 7),
             \* "returned" or "threw"
  prompt,    \* the argument of each call
  requests,  \* the requests each call has handed to fetch, in order
  wire,      \* each call's HTTP transaction: "none", "inflight", "failed"
             \* (no response), "responded", or a response whose body
             \* broke off: "cut" (the break is reported) or "short" (the
             \* break is taken for the body's end)
  response,  \* the response the service sent on each call's connection
  arrived,   \* what reaches the call of that response's body
  res,       \* the local const res of each call (line 2)
  retval,    \* the value each call's promise is fulfilled with
  thrown,    \* the error each call's promise is rejected with
  steps      \* the statements each call has executed, in order

vars == << pc, prompt, requests, wire, response, arrived, res, retval, thrown,
          steps >>

\* No response (yet).
NoResponse == [status |-> 0, fill |-> 0, body |-> << >>]

\* No value: the call has not returned.
Undefined == [t |-> "undefined"]

Init ==
  /\ pc       = [c \in Calls |-> "idle"]
  /\ prompt   = [c \in Calls |-> NoPrompt]
  /\ requests = [c \in Calls |-> << >>]
  /\ wire     = [c \in Calls |-> "none"]
  /\ response = [c \in Calls |-> NoResponse]
  /\ arrived  = [c \in Calls |-> Body(0, << >>)]
  /\ res      = [c \in Calls |-> NoResponse]
  /\ retval   = [c \in Calls |-> Undefined]
  /\ thrown   = [c \in Calls |-> "none"]
  /\ steps    = [c \in Calls |-> << >>]

(***************************************************************************)
(* askAgent, statement by statement                                        *)
(***************************************************************************)

\* Lines 1-6: call c is made with prompt p.  JSON.stringify throws a
\* RangeError when the text it builds is longer than a string can be: the
\* call throws, and fetch is not called.  Otherwise the call builds the
\* request, hands it to fetch, which sends it, and suspends at the first
\* await.
askAgent(c, p) ==
  /\ pc[c] = "idle"
  /\ prompt' = [prompt EXCEPT ![c] = p]
  /\ IF StringifyLength(p.fill, p.text) > MaxStringLength
       THEN /\ thrown' = [thrown EXCEPT ![c] = "RangeError"]
            /\ pc'     = [pc EXCEPT ![c] = "threw"]
            /\ steps'  = [steps EXCEPT ![c] = Append(@, "throw")]
            /\ UNCHANGED << requests, wire >>
       ELSE /\ requests' = [requests EXCEPT ![c] = Append(@, Request(Units(p)))]
            /\ wire'     = [wire EXCEPT ![c] = "inflight"]
            /\ pc'       = [pc EXCEPT ![c] = "await fetch"]
            /\ steps'    = [steps EXCEPT ![c] = Append(@, "fetch")]
            /\ UNCHANGED thrown
  /\ UNCHANGED << response, arrived, res, retval >>

\* The service answers call c's request with response r.
Respond(c, r) ==
  /\ wire[c] = "inflight"
  /\ wire'     = [wire EXCEPT ![c] = "responded"]
  /\ response' = [response EXCEPT ![c] = r]
  /\ arrived'  = [arrived EXCEPT ![c] = Body(r.fill, r.body)]
  /\ UNCHANGED << pc, prompt, requests, res, retval, thrown, steps >>

\* The connection of call c drops after the response's head and n bytes of
\* its body have arrived, and before the mark of the body's end.  The break
\* is reported (a body of a declared length, or one sent in chunks on a
\* connection to be kept), or it is taken for the end of the body (one sent
\* in chunks on a connection to be closed): the body is then its first n
\* bytes.
BodyCut(c, n) ==
  /\ wire[c] = "responded"
  /\ pc[c] \in {"await fetch", "await json"}
  /\ n \in 0..Size(response[c])
  /\ \/ /\ wire' = [wire EXCEPT ![c] = "cut"]
        /\ UNCHANGED arrived
     \/ /\ wire' = [wire EXCEPT ![c] = "short"]
        /\ arrived' = [arrived EXCEPT ![c] = StartOf(response[c], n)]
  /\ UNCHANGED << pc, prompt, requests, response, res, retval, thrown, steps >>

\* Call c's request cannot be sent, or no response to it arrives.
TransportFail(c) ==
  /\ wire[c] = "inflight"
  /\ wire' = [wire EXCEPT ![c] = "failed"]
  /\ UNCHANGED << pc, prompt, requests, response, arrived, res, retval, thrown,
                  steps >>

\* Line 2 with the rejection caught and null returned in its place.
AwaitFetchCatching(c) ==
  /\ pc[c] = "await fetch"
  /\ wire[c] \in {"responded", "cut", "short", "failed"}
  /\ IF wire[c] # "failed"
       THEN /\ res'    = [res EXCEPT ![c] = response[c]]
            /\ pc'     = [pc EXCEPT ![c] = "await json"]
            /\ steps'  = [steps EXCEPT ![c] = Append(@, "json")]
            /\ UNCHANGED retval
       ELSE /\ retval' = [retval EXCEPT ![c] = JNull]
            /\ pc'     = [pc EXCEPT ![c] = "returned"]
            /\ steps'  = [steps EXCEPT ![c] = Append(@, "return")]
            /\ UNCHANGED res
  /\ UNCHANGED << prompt, requests, wire, response, arrived, thrown >>

\* Line 2 with res declared outside the function: one variable for all calls.
AwaitFetchSharedRes(c) ==
  /\ pc[c] = "await fetch"
  /\ wire[c] \in {"responded", "cut", "short", "failed"}
  /\ IF wire[c] # "failed"
       THEN /\ res'    = [d \in Calls |-> response[c]]
            /\ pc'     = [pc EXCEPT ![c] = "await json"]
            /\ steps'  = [steps EXCEPT ![c] = Append(@, "json")]
            /\ UNCHANGED thrown
       ELSE /\ thrown' = [thrown EXCEPT ![c] = "TypeError"]
            /\ pc'     = [pc EXCEPT ![c] = "threw"]
            /\ steps'  = [steps EXCEPT ![c] = Append(@, "throw")]
            /\ UNCHANGED res
  /\ UNCHANGED << prompt, requests, wire, response, arrived, retval >>

\* Line 2 with one retry: a first rejection sends the request again.
AwaitFetchRetrying(c) ==
  /\ pc[c] = "await fetch"
  /\ wire[c] \in {"responded", "cut", "short", "failed"}
  /\ IF wire[c] # "failed"
       THEN /\ res'    = [res EXCEPT ![c] = response[c]]
            /\ pc'     = [pc EXCEPT ![c] = "await json"]
            /\ steps'  = [steps EXCEPT ![c] = Append(@, "json")]
            /\ UNCHANGED << thrown, requests, wire >>
       ELSE IF Len(requests[c]) < 2
         THEN /\ requests' = [requests EXCEPT ![c] = Append(@, requests[c][1])]
              /\ wire'     = [wire EXCEPT ![c] = "inflight"]
              /\ UNCHANGED << res, pc, steps, thrown >>
         ELSE /\ thrown' = [thrown EXCEPT ![c] = "TypeError"]
              /\ pc'     = [pc EXCEPT ![c] = "threw"]
              /\ steps'  = [steps EXCEPT ![c] = Append(@, "throw")]
              /\ UNCHANGED << res, requests, wire >>
  /\ UNCHANGED << prompt, response, arrived, retval >>

\* Line 2 without its await: res is fetch's promise, which has no json
\* method, and the call throws while the request is still in flight.
AwaitFetchNotAwaited(c) ==
  /\ pc[c] = "await fetch"
  /\ thrown' = [thrown EXCEPT ![c] = "TypeError"]
  /\ pc'     = [pc EXCEPT ![c] = "threw"]
  /\ steps'  = [steps EXCEPT ![c] = Append(@, "throw")]
  /\ UNCHANGED << prompt, requests, wire, response, arrived, res, retval >>

\* Line 2: the await of fetch's promise resumes call c.  Fulfilled (the
\* response's head has arrived), res is the response and the call goes on to
\* line 7, calls res.json() and suspends at the second await; rejected (a
\* TypeError, fetch's network error), the call throws.
AwaitFetch(c) ==
  /\ pc[c] = "await fetch"
  /\ wire[c] \in {"responded", "cut", "short", "failed"}
  /\ IF wire[c] # "failed"
       THEN /\ res'    = [res EXCEPT ![c] = response[c]]
            /\ pc'     = [pc EXCEPT ![c] = "await json"]
            /\ steps'  = [steps EXCEPT ![c] = Append(@, "json")]
            /\ UNCHANGED thrown
       ELSE /\ thrown' = [thrown EXCEPT ![c] = "TypeError"]
            /\ pc'     = [pc EXCEPT ![c] = "threw"]
            /\ steps'  = [steps EXCEPT ![c] = Append(@, "throw")]
            /\ UNCHANGED res
  /\ UNCHANGED << prompt, requests, wire, response, arrived, retval >>

\* Line 7 behind a status check: a status outside 200..299 throws.
AwaitJsonCheckingStatus(c) ==
  /\ pc[c] = "await json"
  /\ LET r == Decode(arrived[c]) IN
     IF wire[c] # "cut" /\ r.ok /\ res[c].status >= 200 /\ res[c].status <= 299
       THEN /\ retval' = [retval EXCEPT ![c] = r.v]
            /\ pc'     = [pc EXCEPT ![c] = "returned"]
            /\ steps'  = [steps EXCEPT ![c] = Append(@, "return")]
            /\ UNCHANGED thrown
       ELSE /\ thrown' = [thrown EXCEPT ![c] =
                           IF wire[c] = "cut" THEN "TypeError"
                           ELSE IF r.ok THEN "HttpError"
                           ELSE IF r = TooLong THEN "Error" ELSE "SyntaxError"]
            /\ pc'     = [pc EXCEPT ![c] = "threw"]
            /\ steps'  = [steps EXCEPT ![c] = Append(@, "throw")]
            /\ UNCHANGED retval
  /\ UNCHANGED << prompt, requests, wire, response, arrived, res >>

\* Line 7 with the rejection caught and null returned in its place.
AwaitJsonFallback(c) ==
  /\ pc[c] = "await json"
  /\ LET r == Decode(arrived[c]) IN
     /\ retval' = [retval EXCEPT ![c] = IF wire[c] # "cut" /\ r.ok THEN r.v ELSE JNull]
     /\ pc'     = [pc EXCEPT ![c] = "returned"]
     /\ steps'  = [steps EXCEPT ![c] = Append(@, "return")]
  /\ UNCHANGED << prompt, requests, wire, response, arrived, res, thrown >>

\* Line 7 where a body that does not parse leaves the promise pending.
AwaitJsonHanging(c) ==
  /\ pc[c] = "await json"
  /\ LET r == Decode(arrived[c]) IN
     /\ wire[c] # "cut" /\ r.ok
     /\ retval' = [retval EXCEPT ![c] = r.v]
     /\ pc'     = [pc EXCEPT ![c] = "returned"]
     /\ steps'  = [steps EXCEPT ![c] = Append(@, "return")]
  /\ UNCHANGED << prompt, requests, wire, response, arrived, res, thrown >>

\* Line 7: the await of res.json()'s promise resumes call c.  res.json()
\* reads the body to its end and decodes what arrived.  Fulfilled, the call
\* returns the value; rejected (a TypeError for a break that is reported, an
\* Error for a body longer than a string can be, a SyntaxError for a body
\* that does not parse), the call throws.
AwaitJson(c) ==
  /\ pc[c] = "await json"
  /\ LET r == Decode(arrived[c]) IN
     IF wire[c] # "cut" /\ r.ok
       THEN /\ retval' = [retval EXCEPT ![c] = r.v]
            /\ pc'     = [pc EXCEPT ![c] = "returned"]
            /\ steps'  = [steps EXCEPT ![c] = Append(@, "return")]
            /\ UNCHANGED thrown
       ELSE /\ thrown' = [thrown EXCEPT ![c] =
                           IF wire[c] = "cut" THEN "TypeError"
                           ELSE IF r = TooLong THEN "Error" ELSE "SyntaxError"]
            /\ pc'     = [pc EXCEPT ![c] = "threw"]
            /\ steps'  = [steps EXCEPT ![c] = Append(@, "throw")]
            /\ UNCHANGED retval
  /\ UNCHANGED << prompt, requests, wire, response, arrived, res >>

\* Overlapping calls.
Next ==
  \E c \in Calls :
    \/ \E p \in Prompts : askAgent(c, p)
    \/ \E r \in Responses : Respond(c, r)
    \/ TransportFail(c)
    \/ \E n \in CutLengths : BodyCut(c, n)
    \/ AwaitFetch(c)
    \/ AwaitJson(c)

Spec == Init /\ [][Next]_vars

\* One call, with every prompt.
NextCodec ==
  \/ \E p \in AllPrompts : askAgent(1, p)
  \/ \E r \in Responses : Respond(1, r)
  \/ TransportFail(1)
  \/ \E n \in CutLengths : BodyCut(1, n)
  \/ AwaitFetch(1)
  \/ AwaitJson(1)

SpecCodec == Init /\ [][NextCodec]_vars

\* One call, with every response and every place where its body can break
\* off.
NextBodies ==
  \/ \E p \in Prompts : askAgent(1, p)
  \/ \E r \in AllResponses : Respond(1, r)
  \/ TransportFail(1)
  \/ \E n \in CutPoints : BodyCut(1, n)
  \/ AwaitFetch(1)
  \/ AwaitJson(1)

SpecBodies == Init /\ [][NextBodies]_vars

\* Overlapping calls where the network settles every request, a settled
\* promise resumes its await, and body decoding completes.
FairSpec ==
  /\ Spec
  /\ \A c \in Calls :
       /\ WF_vars((\E r \in Responses : Respond(c, r)) \/ TransportFail(c))
       /\ WF_vars(AwaitFetch(c))
       /\ WF_vars(AwaitJson(c))

Terminal(c) == pc[c] \in {"returned", "threw"}

TypeOK ==
  /\ pc \in [Calls -> {"idle", "await fetch", "await json", "returned", "threw"}]
  /\ wire \in [Calls -> {"none", "inflight", "responded", "cut", "short",
                         "failed"}]
  /\ \A c \in Calls : prompt[c].fill + Len(prompt[c].text) <= MaxStringLength
  /\ \A c \in Calls : \E n \in CutPoints :
       arrived[c] = StartOf(response[c], n)
  /\ thrown \in [Calls -> {"none", "RangeError", "TypeError", "SyntaxError",
                           "Error"}]
  /\ \A c \in Calls : Len(requests[c]) <= 1

(***************************************************************************)
(* Properties                                                              *)
(***************************************************************************)

Responded(c) == wire[c] = "responded"

\* The call was handed a body to its end: the whole body, or what had
\* arrived of it at a break taken for its end.
Delivered(c) == wire[c] \in {"responded", "short"}

\* The body handed to the call is one a string can hold, and it is JSON: its
\* bytes are, and no byte order mark stands after spaces.
Fits(c) == Size(arrived[c]) <= MaxStringLength
HandedJson(c) ==
  /\ arrived[c].body \in JsonArrivals
  /\ arrived[c].fill > 0 => ~HasBom(arrived[c].body, 1)

\* The request of the call's prompt is one a string can hold.
Sendable(c) ==
  StringifyLength(prompt[c].fill, prompt[c].text) <= MaxStringLength

\* How a call ended: <<pc, value returned, error thrown>>.
Outcome(c) == << pc[c], retval[c], thrown[c] >>

\* The outcome a response calls for, by its body alone.
OutcomeOf(r) ==
  IF Size(r) > MaxStringLength THEN << "threw", Undefined, "Error" >>
  ELSE IF r.body \in JsonBodies /\ (r.fill > 0 => ~HasBom(r.body, 1))
    THEN << "returned", Denotes(r.body), "none" >>
  ELSE << "threw", Undefined, "SyntaxError" >>

C4_TransportFailurePropagates ==
  \A c \in Calls :
    wire[c] = "failed" =>
      /\ pc[c] \in {"await fetch", "threw"}
      /\ retval[c] = Undefined
      /\ \A i \in 1..Len(steps[c]) : steps[c][i] # "json"
      /\ Terminal(c) => thrown[c] = "TypeError"

\* A call has thrown the transport error.
C4_Witness ==
  \E c \in Calls : wire[c] = "failed" /\ pc[c] = "threw" /\ thrown[c] = "TypeError"

\* C5: a body handed to the call that is not JSON makes the call throw the
\* error of the decode, a SyntaxError, or an Error when the body is longer
\* than a string can be; no value is returned in its place.
C5_DecodeFailurePropagates ==
  \A c \in Calls :
    /\ Terminal(c) /\ Delivered(c) /\ ~HandedJson(c) =>
         /\ pc[c] = "threw" /\ retval[c] = Undefined
         /\ thrown[c] = IF Fits(c) THEN "SyntaxError" ELSE "Error"
    /\ Terminal(c) /\ Responded(c) /\ response[c].body \in NonJsonBodies =>
         pc[c] = "threw" /\ thrown[c] \in {"SyntaxError", "Error"}

\* Status 200 with body "not json" has made the call throw.
C5_Witness ==
  \E c \in Calls : /\ pc[c] = "threw"
                   /\ response[c] = [status |-> 200, fill |-> 0, body |-> BodyNotJson]
                   /\ thrown[c] = "SyntaxError"

\* C6: overlapping calls do not cross: the response a call holds after its
\* first await is the one sent on its own connection, its outcome is the one
\* that response calls for, and it is not the outcome of a different response
\* sent to another call.
C6_NoCrossTalk ==
  \A c \in Calls :
    Responded(c) /\ pc[c] \in {"await json", "returned", "threw"} =>
      /\ res[c] = response[c]
      /\ Terminal(c) =>
           /\ Outcome(c) = OutcomeOf(response[c])
           /\ \A d \in Calls \ {c} :
                Responded(d) /\ response[d] # response[c]
                  => Outcome(c) # OutcomeOf(response[d])

\* A call has returned its own response while a call with another prompt,
\* answered with another response, has not yet resumed.
C6_Witness ==
  \E c \in Calls : \E d \in Calls \ {c} :
    /\ prompt[c] # prompt[d]
    /\ pc[c] = "returned" /\ retval[c] = Denotes(response[c].body)
    /\ pc[d] = "await fetch" /\ Responded(d) /\ response[d] # response[c]

LinearRuns ==
  { << >>, << "fetch" >>, << "fetch", "throw" >>, << "fetch", "json" >>,
    << "fetch", "json", "return" >>, << "fetch", "json", "throw" >> }

OneOutcome(c) ==
  /\ pc[c] = "returned" => retval[c] # Undefined /\ thrown[c] = "none"
  /\ pc[c] = "threw" => retval[c] = Undefined /\ thrown[c] # "none"
  /\ ~Terminal(c) => retval[c] = Undefined /\ thrown[c] = "none"

\* C9: where the network settles every request and decoding completes, every
\* call made resumes its caller with exactly one outcome; and while its
\* request is in flight no step of the call can be taken (there is no timeout
\* and no cancellation), so without the network it stays suspended.
C9_SettlesWithOneOutcome ==
  /\ [](\A c \in Calls : OneOutcome(c))
  /\ [](\A c \in Calls :
          wire[c] = "inflight" => ~ENABLED (AwaitFetch(c) \/ AwaitJson(c)))
  /\ \A c \in Calls : (pc[c] = "await fetch") ~> Terminal(c)

\* One call has returned a value and another has thrown.
C9_Witness ==
  \E c \in Calls : \E d \in Calls \ {c} :
    /\ pc[c] = "returned" /\ retval[c] # Undefined /\ thrown[c] = "none"
    /\ pc[d] = "threw" /\ retval[d] = Undefined /\ thrown[d] = "SyntaxError"

\* C10: every request goes to the same address with the same method and
\* headers, whatever the prompt and whatever calls came before; and two calls
\* with the same prompt and the same answer end the same way.
C10_NoStateBetweenCalls ==
  /\ \A c \in Calls : \A i \in 1..Len(requests[c]) :
       /\ requests[c][i].url = "http://localhost:8001/agent"
       /\ requests[c][i].method = "POST"
       /\ requests[c][i].headers = { << "Content-Type", "application/json" >> }
  /\ \A c \in Calls : \A d \in Calls :
       ( /\ Terminal(c) /\ Terminal(d)
         /\ prompt[c] = prompt[d]
         /\ wire[c] = wire[d]
         /\ response[c] = response[d]
         /\ arrived[c] = arrived[d] )
       => Outcome(c) = Outcome(d) /\ requests[c] = requests[d]

\* Two calls with the empty prompt and the same response have both returned.
C10_Witness ==
  \E c \in Calls : \E d \in Calls \ {c} :
    /\ pc[c] = "returned" /\ pc[d] = "returned"
    /\ prompt[c] = NoPrompt /\ prompt[d] = NoPrompt
    /\ response[c] = response[d]

====
